---- MODULE Spec2Model ----
(***************************************************************************)
(* Model of src/main.py: the ORB + VWAP alert loop.                        *)
(*                                                                         *)
(* Times of day are minutes after midnight (09:15 = 555).  Prices are      *)
(* integers in hundredths (100.00 = 10000); VWAP, stop-loss and target are *)
(* exact rationals [num, den], so float rounding is not modelled.          *)
(* External calls (now, kite.historical_data, requests.post) are inputs    *)
(* chosen with \E: a call either returns or raises.                        *)
(***************************************************************************)
EXTENDS Integers, Sequences, FiniteSets, TLC

(* ---------------- program constants (src/main.py:31-41,124) ------------ *)
ORB_START == 555
ORB_END == 570
NO_ENTRY_AFTER == 690
EXIT_ALERT_TIME == 900
MARKET_CLOSE == 915
\* MIN_ORB_PCT = 0.25, held in hundredths of a percent
MIN_ORB_PCT_X100 == 25
RR == 2
MIN_CANDLES == 20
WATCHLIST == <<"TCS", "INFY", "LTIM">>

(* ---------------- bounds of the model ---------------------------------- *)
\* calendar dates 1..MaxDay
MaxDay == 2
\* longest list of today's candles a fetch returns
MaxDayLen == 3

\* wall-clock readings of now(): before market (one at minute 0), market
\* start, an unaligned minute, a full hour, after the entry window, the
\* exit-reminder time and market close
ClockTimes == {540, 550, 555, 557, 600, 695, 900, 915}

\* number of candles of earlier days in a 3-day fetch
PrevCounts == {18, 40}

Candle(tm, h, l, c, v) ==
  [time |-> tm, high |-> h, low |-> l, close |-> c, volume |-> v]

\* the 5-minute candles a fetch can return for today
CandleLibrary == {
  Candle(555, 10000, 9900, 9900, 1),
  Candle(555, 10000, 9980, 9990, 1),
  Candle(555, 10000, 9900, 9900, 0),
  Candle(560, 10050, 9900, 10000, 1),
  Candle(570, 10100, 9700, 10100, 1),
  Candle(575, 10100, 9700, 10100, 1),
  Candle(575, 11000, 10100, 10100, 1),
  Candle(575, 10000, 9900, 10000, 1),
  Candle(575, 10100, 9700, 10100, 0),
  Candle(690, 10100, 9700, 10100, 1),
  Candle(690, 10420, 10100, 10420, 1),
  Candle(695, 10100, 9700, 10100, 1),
  Candle(695, 9950, 9900, 9940, 1) }

RECURSIVE DaysOfLen(_)
DaysOfLen(n) ==
  IF n = 0 THEN { <<>> }
  ELSE { Append(p[1], p[2]) :
           p \in { q \in DaysOfLen(n - 1) \X CandleLibrary :
                     \/ Len(q[1]) = 0
                     \/ q[1][Len(q[1])].time < q[2].time } }

\* candidate day sequences: ascending by timestamp, no duplicates
AllDays == UNION { DaysOfLen(n) : n \in 0..MaxDayLen }

\* what kite.historical_data(token, t - 3 days, t, "5minute") can return at
\* time-of-day tm: prev candles of earlier days followed by today's candles,
\* none later than tm
FetchResults(tm) ==
  { [prev |-> p, day |-> d] :
      p \in PrevCounts,
      d \in { x \in AllDays : \A i \in 1..Len(x) : x[i].time <= tm } }

\* the call raising (network error, timeout, token expiry)
FetchRaises == [prev |-> -1, day |-> <<>>]

(* ---------------- candle arithmetic (src/main.py:171-190) -------------- *)
Rat(n, d) == [num |-> n, den |-> d]

\* orb = day[(time >= ORB_START) & (time < ORB_END)]
Orb(day) ==
  SelectSeq(day, LAMBDA c : c.time >= ORB_START /\ c.time < ORB_END)

\* orb["high"].max()
OrbHigh(orb) ==
  CHOOSE h \in { orb[i].high : i \in 1..Len(orb) } :
    \A i \in 1..Len(orb) : orb[i].high <= h

\* orb["low"].min()
OrbLow(orb) ==
  CHOOSE l \in { orb[i].low : i \in 1..Len(orb) } :
    \A i \in 1..Len(orb) : orb[i].low >= l

\* the gate with MIN_ORB_PCT read as a fraction instead of a percentage
OrbTooNarrowAsFraction(orb_high, orb_low) ==
  (orb_high - orb_low) * 100 * 100 * 100 < MIN_ORB_PCT_X100 * orb_low

\* (orb_high - orb_low) / orb_low * 100 < MIN_ORB_PCT
OrbTooNarrow(orb_high, orb_low) ==
  (orb_high - orb_low) * 100 * 100 < MIN_ORB_PCT_X100 * orb_low

RECURSIVE CumTpVol(_, _)
\* (tp * volume).cumsum() at row i, times 3: tp = (high + low + close) / 3
CumTpVol(day, i) ==
  IF i = 0 THEN 0
  ELSE CumTpVol(day, i - 1)
       + (day[i].high + day[i].low + day[i].close) * day[i].volume

RECURSIVE CumVol(_, _)
\* volume.cumsum() at row i
CumVol(day, i) ==
  IF i = 0 THEN 0 ELSE CumVol(day, i - 1) + day[i].volume

\* day["vwap"] at row i; den = 0 is the NaN of 0 / 0
Vwap(day, i) == Rat(CumTpVol(day, i), 3 * CumVol(day, i))

\* float comparisons; every comparison with NaN is False
IsNaN(r) == r.den = 0
GtRat(x, r) == ~IsNaN(r) /\ x * r.den > r.num
GeRat(x, r) == ~IsNaN(r) /\ x * r.den >= r.num
LeRat(x, r) == ~IsNaN(r) /\ x * r.den <= r.num

\* Python max(orb_low, vwap): the second argument only when it is greater
MaxLowVwap(orb_low, vwap) ==
  IF ~IsNaN(vwap) /\ vwap.num > orb_low * vwap.den
  THEN vwap ELSE Rat(orb_low, 1)

\* target = close + RR * (close - sl)
Target(close, sl) ==
  Rat(close * sl.den + RR * (close * sl.den - sl.num), sl.den)

\* the columns of the frame when line 138 copies the row out of it:
\* "time" was added at line 135, "vwap" is added to the frame only at 182
RowColumns == {"time", "high", "low", "close", "volume"}

\* day.iloc[-1]: the final, possibly in-progress row
LastRowInProgress(day) ==
  [col \in RowColumns |-> day[Len(day)][col]]

\* last = day.iloc[-2]: a copy of the second-to-last row
LastRow(day) ==
  [col \in RowColumns |-> day[Len(day) - 1][col]]

\* f"{x:.2f}" of a price held in hundredths: the nearest hundredth
Round2(r) ==
  LET q == r.num \div r.den
      twice == 2 * (r.num % r.den)
  IN  IF twice > r.den THEN q + 1
      ELSE IF twice < r.den THEN q
      ELSE IF q % 2 = 0 THEN q ELSE q + 1

(* ---------------- one symbol of the watchlist (src/main.py:116-206) ---- *)
NoMsg == << >>

\* what the evaluation of one symbol did: where it left the loop body, the
\* exception it raised, the alert it handed to send_telegram, and the maps
Outcome(stage, exc, msg, ot, st) ==
  [stage |-> stage, exc |-> exc, msg |-> msg,
   open_trades |-> ot, sent_today |-> st]

\* del open_trades[sym]
DelTrade(ot, sym) == [s \in DOMAIN ot \ {sym} |-> ot[s]]

\* open_trades[sym] = trade
PutTrade(ot, sym, trade) ==
  [s \in DOMAIN ot \cup {sym} |-> IF s = sym THEN trade ELSE ot[s]]

\* lines 166-206, reached with a day of at least two candles
BuyLogic(sym, date, day, ot, st, ok) ==
  LET last == LastRow(day)
      key == <<sym, date>>
      orb == Orb(day)
      orb_high == OrbHigh(orb)
      orb_low == OrbLow(orb)
      vwap == Vwap(day, Len(day) - 1)
      sl == MaxLowVwap(orb_low, vwap)
      target == Target(last.close, sl)
      alert == <<"BUY", sym, last.time, last.close, Round2(sl), Round2(target)>>
      trade == [entry |-> last.close, sl |-> sl, target |-> target]
  IN  IF key \in st THEN Outcome("already_sent", "none", NoMsg, ot, st)
      ELSE IF Len(orb) = 0 THEN Outcome("no_orb", "none", NoMsg, ot, st)
      ELSE IF OrbTooNarrow(orb_high, orb_low)
        THEN Outcome("narrow_orb", "none", NoMsg, ot, st)
      ELSE IF ~(ORB_END < last.time /\ last.time <= NO_ENTRY_AFTER)
        THEN Outcome("outside_window", "none", NoMsg, ot, st)
      ELSE IF ~(last.close > orb_high)
        THEN Outcome("no_breakout", "none", NoMsg, ot, st)
      \* last["vwap"]: the row copied at line 138 has no such column
      ELSE IF "vwap" \notin DOMAIN last
        THEN Outcome("key_error", "KeyError", NoMsg, ot, st)
      ELSE IF ~GtRat(last.close, vwap)
        THEN Outcome("below_vwap", "none", NoMsg, ot, st)
      ELSE IF ~ok THEN Outcome("buy", "send", alert, ot, st)
      ELSE Outcome("buy", "none", alert,
                   PutTrade(ot, sym, trade), st \cup {key})

\* lines 140-164, then the buy logic when no exit fired
SellLogic(sym, date, day, ot, st, ok) ==
  LET last == LastRow(day)
      trade == ot[sym]
      hit == <<"SELL_TARGET", sym, last.time, last.close, Round2(trade.target)>>
      stop == <<"SELL_STOP", sym, last.time, last.close, Round2(trade.sl)>>
  IN  IF sym \in DOMAIN ot /\ GeRat(last.close, trade.target)
        THEN IF ~ok THEN Outcome("sell_target", "send", hit, ot, st)
             ELSE Outcome("sell_target", "none", hit, DelTrade(ot, sym), st)
      ELSE IF sym \in DOMAIN ot /\ LeRat(last.close, trade.sl)
        THEN IF ~ok THEN Outcome("sell_stop", "send", stop, ot, st)
             ELSE Outcome("sell_stop", "none", stop, DelTrade(ot, sym), st)
      ELSE BuyLogic(sym, date, day, ot, st, ok)

\* lines 124-206 on the list historical_data returned; ok says whether a
\* send_telegram call returns
Evaluate(sym, date, fetched, ot, st, ok) ==
  IF fetched.prev + Len(fetched.day) < MIN_CANDLES
    THEN Outcome("few_candles", "none", NoMsg, ot, st)
  ELSE IF Len(fetched.day) = 0
    THEN Outcome("no_today", "none", NoMsg, ot, st)
  \* day.iloc[-2] on a one-row frame
  ELSE IF Len(fetched.day) < 2
    THEN Outcome("index_error", "IndexError", NoMsg, ot, st)
  ELSE SellLogic(sym, date, fetched.day, ot, st, ok)

(* ---------------- the head of an iteration (src/main.py:76-114) -------- *)
\* last_heartbeat_hour = None
NoHour == -1

Hour(m) == m \div 60
Minute(m) == m % 60

Step(pc2, exc2, hb, ms, ea, delivered) ==
  [pc |-> pc2, exc |-> exc2, last_heartbeat_hour |-> hb,
   market_start_sent |-> ms, exit_alert_sent |-> ea, out |-> delivered]

\* line 79 without the latch: a heartbeat in every iteration of minute 0
HeartbeatDueEveryPass(now, hb) == Minute(now.min) = 0

\* line 79: t.minute == 0 and last_heartbeat_hour != t.hour
HeartbeatDue(now, hb) == Minute(now.min) = 0 /\ hb # Hour(now.min)

\* line 89 without the latch
StartDueEveryPass(now, ms) == now.min >= ORB_START

\* line 89: not market_start_sent and t.time() >= ORB_START
StartDue(now, ms) == ~ms /\ now.min >= ORB_START

\* line 98: not exit_alert_sent and t.time() >= EXIT_ALERT_TIME
ExitDue(now, ea) == ~ea /\ now.min >= EXIT_ALERT_TIME

\* line 112 with the alignment test dropped
OffGridNever(now) == FALSE

\* line 112: t.minute % 5 != 0
OffGrid(now) == Minute(now.min) % 5 # 0

\* lines 76-114 at reading now of the clock; okHb, okStart, okExit and
\* okClose say whether the matching send_telegram call returns
Schedule(now, hb, ms, ea, okHb, okStart, okExit, okClose) ==
  LET hbDue == HeartbeatDue(now, hb)
      hb1 == IF hbDue THEN Hour(now.min) ELSE hb
      o1 == IF hbDue THEN <<"HEARTBEAT">> ELSE << >>
      startDue == StartDue(now, ms)
      ms1 == ms \/ startDue
      o2 == IF startDue THEN Append(o1, "START") ELSE o1
      exitDue == ExitDue(now, ea)
      ea1 == ea \/ exitDue
      o3 == IF exitDue THEN Append(o2, "EXIT_REMINDER") ELSE o2
  IN  IF hbDue /\ ~okHb THEN Step("handler", "send", hb, ms, ea, << >>)
      ELSE IF now.min < ORB_START
        THEN Step("loop", "none", hb1, ms, ea, o1)
      ELSE IF startDue /\ ~okStart
        THEN Step("handler", "send", hb1, ms, ea, o1)
      ELSE IF exitDue /\ ~okExit
        THEN Step("handler", "send", hb1, ms1, ea, o2)
      ELSE IF now.min >= MARKET_CLOSE
        THEN IF ~okClose THEN Step("handler", "send", hb1, ms1, ea1, o3)
             ELSE Step("done", "none", hb1, ms1, ea1,
                       Append(o3, "MARKET_CLOSED"))
      ELSE IF OffGrid(now)
        THEN Step("loop", "none", hb1, ms1, ea1, o3)
      ELSE Step("symbols", "none", hb1, ms1, ea1, o3)

(* ---------------- state ------------------------------------------------ *)
VARIABLES
  t,                    \* the reading of now() this iteration works with
  pc,                   \* "loop", "fetch", "fetched", "evaluated",
                        \* "handler", "done", "crashed"
  idx,                  \* position of the for loop in WATCHLIST
  candles,              \* what historical_data returned for WATCHLIST[idx]
  slept,                \* the last sleep was the handler's sleep(60)
  sent_today,           \* set of <<sym, date>>
  open_trades,          \* sym -> [entry, sl, target]
  market_start_sent,
  exit_alert_sent,
  last_heartbeat_hour,
  exc,                  \* the exception raised, until the handler reports it
  out,                  \* alerts the last step delivered, in order
  ev                    \* what the evaluation of WATCHLIST[idx] did

vars == <<t, pc, idx, candles, slept, sent_today, open_trades,
          market_start_sent, exit_alert_sent, last_heartbeat_hour, exc,
          out, ev>>

NoEv ==
  [sym |-> "none", stage |-> "none", msg |-> NoMsg,
   had_trade |-> FALSE, had_key |-> FALSE, ok |-> TRUE]

Before(a, b) ==
  a.date < b.date \/ (a.date = b.date /\ a.min < b.min)

\* the readings now() can return next: the clock never runs backwards, and
\* a minute has passed after sleep(60)
Readings ==
  { n \in [date : 1..MaxDay, min : ClockTimes] :
      Before(t, n) \/ (~slept /\ n = t) }

Init ==
  /\ t = [date |-> 1, min |-> 0]
  /\ pc = "loop"
  /\ idx = 1
  /\ candles = FetchRaises
  /\ slept = FALSE
  /\ sent_today = {}
  /\ open_trades = << >>
  /\ market_start_sent = FALSE
  /\ exit_alert_sent = FALSE
  /\ last_heartbeat_hour = NoHour
  /\ exc = "none"
  /\ out = << >>
  /\ ev = NoEv

\* lines 74-114: one pass from "while True" to the for loop, a sleep and
\* continue, the break, or an exception
LoopHead ==
  /\ pc = "loop"
  /\ \E now \in Readings, okHb, okStart, okExit, okClose \in BOOLEAN :
       LET r == Schedule(now, last_heartbeat_hour, market_start_sent,
                         exit_alert_sent, okHb, okStart, okExit, okClose)
       IN  /\ t' = now
           /\ pc' = IF r.pc = "symbols" THEN "fetch" ELSE r.pc
           /\ exc' = r.exc
           /\ last_heartbeat_hour' = r.last_heartbeat_hour
           /\ market_start_sent' = r.market_start_sent
           /\ exit_alert_sent' = r.exit_alert_sent
           /\ out' = r.out
  /\ idx' = 1
  /\ slept' = FALSE
  /\ UNCHANGED <<candles, sent_today, open_trades, ev>>

\* lines 116-122: the for loop takes WATCHLIST[idx] and fetches its candles;
\* the call returns a list or raises
Fetch ==
  /\ pc = "fetch"
  /\ \E fetched \in FetchResults(t.min) \cup {FetchRaises} :
       /\ candles' = fetched
       /\ pc' = IF fetched = FetchRaises THEN "handler" ELSE "fetched"
       /\ exc' = IF fetched = FetchRaises THEN "fetch" ELSE "none"
  /\ out' = << >>
  /\ UNCHANGED <<t, idx, slept, sent_today, open_trades, market_start_sent,
                 exit_alert_sent, last_heartbeat_hour, ev>>

\* lines 124-206: the rest of the loop body for WATCHLIST[idx]
EvalSymbol ==
  /\ pc = "fetched"
  /\ \E ok \in BOOLEAN :
       LET sym == WATCHLIST[idx]
           r == Evaluate(sym, t.date, candles, open_trades, sent_today, ok)
       IN  /\ open_trades' = r.open_trades
           /\ sent_today' = r.sent_today
           /\ exc' = r.exc
           /\ out' = IF r.exc = "none" /\ r.msg # NoMsg
                     THEN <<r.msg>> ELSE << >>
           /\ ev' = [sym |-> sym, stage |-> r.stage, msg |-> r.msg,
                     had_trade |-> sym \in DOMAIN open_trades,
                     had_key |-> <<sym, t.date>> \in sent_today,
                     ok |-> ok]
           /\ pc' = IF r.exc # "none" THEN "handler" ELSE "evaluated"
  /\ UNCHANGED <<t, idx, candles, slept, market_start_sent, exit_alert_sent,
                 last_heartbeat_hour>>

\* the for loop moves on (a "continue" or the end of the body); after the
\* last symbol the iteration ends with sleep(5), line 208.  candles is dead
\* until the next fetch assigns it.
NextSymbol ==
  /\ pc = "evaluated"
  /\ pc' = IF idx < Len(WATCHLIST) THEN "fetch" ELSE "loop"
  /\ idx' = IF idx < Len(WATCHLIST) THEN idx + 1 ELSE 1
  /\ candles' = FetchRaises
  /\ ev' = NoEv
  /\ out' = << >>
  /\ UNCHANGED <<t, slept, sent_today, open_trades, market_start_sent,
                 exit_alert_sent, last_heartbeat_hour, exc>>

\* lines 210-212: report the exception, sleep(60), next iteration; when the
\* report itself raises, nothing catches it and the process ends
Handler ==
  /\ pc = "handler"
  /\ \E ok \in BOOLEAN :
       /\ pc' = IF ok THEN "loop" ELSE "crashed"
       /\ out' = IF ok THEN << <<"ERROR", exc>> >> ELSE << >>
       /\ exc' = IF ok THEN "none" ELSE "send"
       /\ slept' = ok
  /\ idx' = 1
  /\ candles' = FetchRaises
  /\ ev' = NoEv
  /\ UNCHANGED <<t, sent_today, open_trades, market_start_sent,
                 exit_alert_sent, last_heartbeat_hour>>

Next == LoopHead \/ Fetch \/ EvalSymbol \/ NextSymbol \/ Handler

Spec == Init /\ [][Next]_vars

(* ======================= properties ==================================== *)
\* The notions the properties are stated in, over the list the evaluation
\* of ev.sym has just worked on (candles) and what it did (ev).
Evaluated == ev.stage # "none"
Day == candles.day
EnoughCandles == candles.prev + Len(Day) >= MIN_CANDLES
HasLast == Len(Day) >= 2
\* the last closed candle: the second-to-last of the day
Last == Day[Len(Day) - 1]
LastVwap == Vwap(Day, Len(Day) - 1)
HasOrb == Len(Orb(Day)) > 0
RangeHigh == OrbHigh(Orb(Day))
RangeLow == OrbLow(Orb(Day))
\* (high - low) / low * 100 < 0.25, in hundredths of a percent
RangeBelowMinPct == (RangeHigh - RangeLow) * 10000 < 25 * RangeLow
InEntryWindow == 570 < Last.time /\ Last.time <= 690
\* the four entry conditions of the last closed candle, for a flat symbol
Qualifies ==
  /\ EnoughCandles /\ HasLast /\ HasOrb /\ ~RangeBelowMinPct
  /\ InEntryWindow
  /\ Last.close > RangeHigh
  /\ ~IsNaN(LastVwap) /\ Last.close * LastVwap.den > LastVwap.num
Key == <<ev.sym, t.date>>
WasFlat == ~ev.had_trade /\ ~ev.had_key
\* the evaluation changed neither map
MapsUntouched ==
  /\ (ev.sym \in DOMAIN open_trades) = ev.had_trade
  /\ (Key \in sent_today) = ev.had_key
IsBuy(m) == m # NoMsg /\ m[1] = "BUY"

\* Supporting fact: no run of the loop ever stores a trade or a registry
\* key, because the buy branch is never completed (see C9).
NoTradeEverOpens == DOMAIN open_trades = {} /\ sent_today = {}

\* C1: a qualifying last closed candle of a flat symbol gives one entry
\* event: the cycle that sees it (with the send returning) emits BUY and
\* registers (symbol, date), and a registered symbol never gets a BUY.
C1_EntryOnceOnQualifyingCandle ==
  /\ (Evaluated /\ Qualifies /\ WasFlat /\ ev.ok)
       => /\ ev.stage = "buy"
          /\ IsBuy(ev.msg)
          /\ Key \in sent_today
  /\ (Evaluated /\ ev.had_key) => ~IsBuy(ev.msg)

\* C4: a send_telegram call that raises is absorbed at the call site: in
\* an iteration at a 5-minute-aligned market time, which goes on to evaluate
\* the watchlist, the top-level handler is never entered because of a
\* notification failure.
C4_SendFailureStaysAtCallSite ==
  ~(/\ pc = "handler" /\ exc = "send"
    /\ ORB_START <= t.min /\ t.min < MARKET_CLOSE
    /\ Minute(t.min) % 5 = 0)

\* C5: the loop ends only by the break at market close, never by an error.
C5_LoopEndsOnlyAtMarketClose ==
  pc \in {"done", "crashed"} => (pc = "done" /\ t.min >= MARKET_CLOSE)

\* C6: fewer than 20 raw candles, no candle of today, a day too short to
\* have a last closed candle, or an empty opening range: the symbol is
\* skipped, with no alert, no state change and no exception, and the for
\* loop goes on.
C6_DataInsufficiencySkipsSymbol ==
  (Evaluated /\ (~EnoughCandles \/ ~HasLast \/ ~HasOrb) /\ ~ev.had_trade)
    => /\ exc = "none"
       /\ pc = "evaluated"
       /\ ev.msg = NoMsg
       /\ MapsUntouched

\* C7: an entry fires only for a last closed candle with
\* ORB_END < time <= NO_ENTRY_AFTER, and a qualifying candle at exactly
\* 11:30 does produce one.
C7_EntryWindowBounds ==
  /\ (Evaluated /\ IsBuy(ev.msg)) => InEntryWindow
  /\ (Evaluated /\ Qualifies /\ Last.time = 690 /\ WasFlat /\ ev.ok)
       => IsBuy(ev.msg)

\* C8: with an opening range below MIN_ORB_PCT the evaluation never gets
\* to the entry test: no BUY, no trade opened, no registry key added.
C8_NarrowRangeNeverEnters ==
  (Evaluated /\ HasOrb /\ RangeBelowMinPct)
    => /\ ev.stage \notin {"outside_window", "no_breakout", "key_error",
                           "below_vwap", "buy"}
       /\ ~IsBuy(ev.msg)
       /\ (ev.sym \in DOMAIN open_trades) => ev.had_trade
       /\ (Key \in sent_today) => ev.had_key

\* a breakout above a 0.2% opening range, above VWAP and inside the entry
\* window, was evaluated and dropped at the range gate
C8_Witness ==
  /\ pc = "evaluated" /\ ev.stage = "narrow_orb"
  /\ EnoughCandles /\ HasLast /\ HasOrb /\ RangeBelowMinPct
  /\ RangeHigh = 10000 /\ RangeLow = 9980
  /\ InEntryWindow /\ Last.close > RangeHigh
  /\ Last.close * LastVwap.den > LastVwap.num

\* C9: the entry carries entry = close, stop = max(orb.low, vwap) and
\* target = entry + 2 * (entry - stop); for high 100, low 99, close 101,
\* vwap 99.5 the stored trade and the alert are 101 / 99.5 / 104.
C9_EntryCarriesStopAndTarget ==
  (/\ Evaluated /\ Qualifies /\ WasFlat /\ ev.ok
   /\ RangeHigh = 10000 /\ RangeLow = 9900 /\ Last.close = 10100
   /\ LastVwap.num = 9950 * LastVwap.den)
    => /\ ev.sym \in DOMAIN open_trades
       /\ open_trades[ev.sym].entry = 10100
       /\ open_trades[ev.sym].sl.num = 9950 * open_trades[ev.sym].sl.den
       /\ open_trades[ev.sym].target.num
            = 10400 * open_trades[ev.sym].target.den
       /\ ev.msg = <<"BUY", ev.sym, Last.time, 10100, 9950, 10400>>

\* C10: every stored trade has stop < entry < target, and a setup whose
\* stop max(orb.low, vwap) is at or above the close is dropped with no
\* alert, no exception and no state change.
C10_NonPositiveRiskSuppressed ==
  /\ \A s \in DOMAIN open_trades :
       /\ open_trades[s].sl.num < open_trades[s].entry * open_trades[s].sl.den
       /\ open_trades[s].entry * open_trades[s].target.den
            < open_trades[s].target.num
  /\ (/\ Evaluated /\ EnoughCandles /\ HasLast /\ HasOrb
      /\ ~RangeBelowMinPct /\ InEntryWindow /\ WasFlat
      /\ ~IsNaN(LastVwap)
      /\ \/ RangeLow >= Last.close
         \/ LastVwap.num >= Last.close * LastVwap.den)
       => /\ exc = "none"
          /\ pc = "evaluated"
          /\ ev.msg = NoMsg
          /\ MapsUntouched

\* alert kind k is among the alerts the head of an iteration delivered
Has(seq, k) == \E i \in 1..Len(seq) : seq[i] = k

\* C12: when the loop has ended at or after MARKET_CLOSE, the shutdown
\* notification was delivered, and it is the last alert of the run.
C12_ShutdownBeforeTermination ==
  (pc \in {"done", "crashed"} /\ t.min >= 915)
    => (Len(out) > 0 /\ out[Len(out)] = "MARKET_CLOSED")

C15_HeartbeatOncePerHour ==
  [][ /\ pc # "loop" => last_heartbeat_hour' = last_heartbeat_hour
      /\ pc = "loop" =>
           /\ Has(out', "HEARTBEAT") =>
                /\ t'.min % 60 = 0
                /\ last_heartbeat_hour # t'.min \div 60
                /\ last_heartbeat_hour' = t'.min \div 60
           /\ ~Has(out', "HEARTBEAT") =>
                last_heartbeat_hour' = last_heartbeat_hour
           /\ (t'.min % 60 = 0 /\ last_heartbeat_hour # t'.min \div 60) =>
                \/ Has(out', "HEARTBEAT")
                \/ (pc' = "handler" /\ exc' = "send" /\ out' = << >>) ]_vars

\* a further iteration in minute 0 of hour 10, whose heartbeat was already
\* delivered, went on to the watchlist without a second heartbeat
C15_Witness ==
  /\ t.min = 600 /\ last_heartbeat_hour = 10
  /\ pc = "fetch" /\ idx = 1 /\ out = << >>

\* the lists that differ from candles in the final, in-progress candle only
SameButFinal(f) ==
  /\ f.prev = candles.prev
  /\ Len(f.day) = Len(Day)
  /\ \A i \in 1..(Len(Day) - 1) : f.day[i] = Day[i]

\* the alert, the exception and the maps an evaluation ends with
Effect(r) == <<r.exc, r.msg, r.open_trades, r.sent_today>>

\* C16: for a day of at least two candles, the evaluation of a symbol ends
\* with the same alert, exception and maps whatever the final, in-progress
\* candle is.
C16_FinalCandleIgnored ==
  (pc = "fetched" /\ Len(Day) >= 2) =>
    \A f \in FetchResults(t.min) :
      SameButFinal(f) =>
        \A ok \in BOOLEAN :
          Effect(Evaluate(WATCHLIST[idx], t.date, f, open_trades,
                          sent_today, ok))
            = Effect(Evaluate(WATCHLIST[idx], t.date, candles, open_trades,
                              sent_today, ok))

\* the evaluation got to the breakout test on the last closed candle while
\* the in-progress candle closed above the range high, and another choice
\* of the in-progress candle closes at or below it
C16_Witness ==
  /\ pc = "handler" /\ ev.stage = "key_error"
  /\ Day[Len(Day)].close > RangeHigh
  /\ \E f \in FetchResults(t.min) :
       SameButFinal(f) /\ f.day[Len(f.day)].close <= RangeHigh

\* C17: with zero cumulative volume up to the last closed candle the
\* symbol is skipped: no alert, no trade, no registry key, no exception.
C17_ZeroVolumeSkipsSymbol ==
  (/\ Evaluated /\ EnoughCandles /\ HasLast
   /\ \A i \in 1..(Len(Day) - 1) : Day[i].volume = 0)
    => /\ exc = "none"
       /\ pc = "evaluated"
       /\ ev.msg = NoMsg
       /\ MapsUntouched

\* C20: a symbol is fetched or evaluated only with SYSTEM STARTED
\* delivered, at a time of day in [09:15, 15:15) on a 5-minute mark; and
\* the start latch is set only by the iteration that delivers the alert.
C20_EvaluationOnlyAfterStart ==
  /\ []((pc \in {"fetch", "fetched", "evaluated"} \/ Evaluated)
          => /\ market_start_sent
             /\ 555 <= t.min /\ t.min < 915
             /\ t.min % 5 = 0)
  /\ [][ (~market_start_sent /\ market_start_sent')
           => (pc = "loop" /\ Has(out', "START")) ]_vars

\* all three symbols of the watchlist were evaluated at 10:00
C20_Witness ==
  /\ pc = "evaluated" /\ ev.sym = "LTIM" /\ t.min = 600
  /\ market_start_sent

\* Supporting fact for C13 (reachable, so its negation is no invariant): a
\* run whose shutdown send kept raising on date 1 evaluates symbols on date 2
\* with the latches of date 1 still set.
RunsIntoNextDay ==
  pc = "fetched" /\ t.date = 2 /\ t.min < 900 /\ exit_alert_sent

====
